---- MODULE Spec2Model ----
(***************************************************************************)
(* Model of src/api/upload_embeddings.py: the one-shot script that creates *)
(* the Azure AI Search index and uploads data/embeddings.csv into it.      *)
(*                                                                         *)
(* Strings are sequences of one-character strings.  An environment        *)
(* variable is a record [set, val]: set = FALSE is "not in os.environ".    *)
(* Every call into a collaborator (a constructor, an awaited method) may   *)
(* return or raise; an awaited call is issued in one step and completes in *)
(* a later one.                                                            *)
(***************************************************************************)
EXTENDS Integers, Sequences, FiniteSets, TLC

(***************************************************************************)
(* Bounds of the model                                                     *)
(***************************************************************************)
MaxDimLen == 2
MaxUrlLen == 6

DimChars == {"1", "2", "-", " ", "x"}
UrlChars == {"h", ":", "/", "?", "["}

RECURSIVE StringsUpTo(_, _)
StringsUpTo(chars, n) ==
    IF n = 0 THEN {<<>>}
    ELSE LET shorter == StringsUpTo(chars, n - 1)
         IN  shorter \cup {Append(s, c) : s \in shorter, c \in chars}

(***************************************************************************)
(* Environment                                                             *)
(***************************************************************************)
Unset == [set |-> FALSE, val |-> <<>>]
SetTo(s) == [set |-> TRUE, val |-> s]

\* os.environ.get(name, default)
EnvGet(v, default) == IF v.set THEN v.val ELSE default

\* Python truthiness of the result of os.environ.get(name) / os.getenv(name)
Truthy(v) == v.set /\ v.val # <<>>

SearchEndpoints == {Unset, SetTo(<<>>), SetTo(<<"s">>)}
TenantIds == {Unset, SetTo(<<>>), SetTo(<<"t">>)}
DimensionValues == {Unset} \cup {SetTo(s) : s \in StringsUpTo(DimChars, MaxDimLen)}

\* h://h/h?h is https://host/path?query; h/h has no scheme and no "//";
\* //[ has an unbalanced bracket in its authority.
SampleProjectEndpoints ==
    { Unset, SetTo(<<>>),
      SetTo(<<"h", ":", "/", "/", "h", "/", "h", "?", "h">>),
      SetTo(<<"h", "/", "h">>),
      SetTo(<<"/", "/", "[">>) }
AllProjectEndpoints == {Unset} \cup {SetTo(s) : s \in StringsUpTo(UrlChars, MaxUrlLen)}

(***************************************************************************)
(* int(str)                                                                *)
(***************************************************************************)
DigitValue(c) ==
    CASE c = "0" -> 0 [] c = "1" -> 1 [] c = "2" -> 2 [] c = "3" -> 3
      [] c = "4" -> 4 [] c = "5" -> 5 [] c = "6" -> 6 [] c = "7" -> 7
      [] c = "8" -> 8 [] c = "9" -> 9
IsDigit(c) == c \in {"0", "1", "2", "3", "4", "5", "6", "7", "8", "9"}

RECURSIVE LStrip(_)
LStrip(s) == IF s # <<>> /\ Head(s) = " " THEN LStrip(Tail(s)) ELSE s
RECURSIVE RStrip(_)
RStrip(s) ==
    IF s # <<>> /\ s[Len(s)] = " " THEN RStrip(SubSeq(s, 1, Len(s) - 1)) ELSE s
Strip(s) == RStrip(LStrip(s))

RECURSIVE DigitsValue(_, _)
DigitsValue(s, acc) ==
    IF s = <<>> THEN acc ELSE DigitsValue(Tail(s), 10 * acc + DigitValue(Head(s)))

\* int(s): surrounding whitespace is stripped, one optional sign, then at
\* least one decimal digit; anything else raises ValueError.
PyInt(s) ==
    LET t == Strip(s)
        signed == t # <<>> /\ Head(t) \in {"-", "+"}
        digits == IF signed THEN Tail(t) ELSE t
        ok == digits # <<>> /\ \A i \in 1..Len(digits) : IsDigit(digits[i])
        magnitude == IF ok THEN DigitsValue(digits, 0) ELSE 0
    IN  [ok |-> ok,
         val |-> IF signed /\ Head(t) = "-" THEN 0 - magnitude ELSE magnitude]

DefaultDimensions == <<"1", "0", "0">>

(***************************************************************************)
(* urlparse(url).netloc                                                    *)
(***************************************************************************)
SchemeChars == {"h"}
NetlocEnd == {"/", "?", "#"}

\* str.find: the least 1-based index of c in s, 0 when absent
Find(s, c) ==
    IF \E i \in 1..Len(s) : s[i] = c
    THEN CHOOSE i \in 1..Len(s) : s[i] = c /\ \A j \in 1..(i - 1) : s[j] # c
    ELSE 0

\* the url with its "scheme:" prefix removed, when it has one
AfterScheme(url) ==
    LET i == Find(url, ":")
    IN  IF i > 1 /\ \A k \in 1..(i - 1) : url[k] \in SchemeChars
        THEN SubSeq(url, i + 1, Len(url))
        ELSE url

\* Netloc without the cut at the first "/", "?" or "#": everything after "//"
Netloc_KeepsPath(url) ==
    LET rest == AfterScheme(url)
    IN  IF Len(rest) >= 2 /\ rest[1] = "/" /\ rest[2] = "/"
        THEN SubSeq(rest, 3, Len(rest))
        ELSE <<>>

\* _splitnetloc: from after a leading "//" up to the first of "/", "?", "#"
Netloc(url) ==
    LET rest == AfterScheme(url)
    IN  IF Len(rest) >= 2 /\ rest[1] = "/" /\ rest[2] = "/"
        THEN LET body == SubSeq(rest, 3, Len(rest))
                 stops == {i \in 1..Len(body) : body[i] \in NetlocEnd}
                 stop == IF stops = {} THEN Len(body) + 1
                         ELSE CHOOSE i \in stops : \A j \in stops : i <= j
             IN  SubSeq(body, 1, stop - 1)
        ELSE <<>>

Contains(s, c) == \E i \in 1..Len(s) : s[i] = c

\* urlsplit raises ValueError("Invalid IPv6 URL") on an unbalanced bracket
UrlparseRaises(url) ==
    LET n == Netloc(url)
    IN  (Contains(n, "[") /\ ~Contains(n, "]")) \/ (Contains(n, "]") /\ ~Contains(n, "["))

\* f"https://{urlparse(project_endpoint).netloc}/models"
InferenceEndpoint(url) == <<"https://">> \o Netloc(url) \o <<"/models">>

\* os.path.join(os.path.dirname(__file__), 'data', 'embeddings.csv')
EmbeddingsPath == <<"dirname(__file__)", "data", "embeddings.csv">>

(***************************************************************************)
(* State of one run of main()                                              *)
(***************************************************************************)
VARIABLES
    env,                  \* os.environ after load_dotenv(override=True)
    pc,                   \* the statement main() is at
    endpoint,             \* locals of main()
    embed_dimensions,
    project_endpoint,
    azure_credential,     \* index into credentials, 0 while unbound
    embed_client,
    search_index_manager,
    index_empty,          \* what is_index_empty() returned: "unknown" before
    credentials,          \* the AzureCliCredential(...) calls made, in order
    calls,                \* the awaited collaborator calls issued, in order
    inflight,             \* the awaited calls issued and not yet completed
    out,                  \* the lines printed
    pending,              \* the exception the finally block will re-raise
    raised                \* the exception main() terminated with

vars == <<env, pc, endpoint, embed_dimensions, project_endpoint, azure_credential,
          embed_client, search_index_manager, index_empty, credentials, calls,
          inflight, out, pending, raised>>

locals == <<endpoint, embed_dimensions, project_endpoint>>
handles == <<azure_credential, embed_client, search_index_manager, credentials>>
remote == <<calls, inflight, index_empty>>

NoClient == [constructed |-> FALSE, endpoint |-> <<>>, credential |-> 0,
             credential_scopes |-> <<>>]
NoManager == [constructed |-> FALSE, endpoint |-> <<>>, credential |-> 0,
              dimensions |-> 0, embeddings_client |-> NoClient]

Call(op, dims, path) == [op |-> op, dims |-> dims, path |-> path]

Outcomes == {"returns", "raises"}

InitWith(projectEndpoints, searchEndpoints, dimensionValues, tenantIds) ==
    /\ env \in [search : searchEndpoints, dims : dimensionValues,
                project : projectEndpoints, tenant : tenantIds]
    /\ pc = "start"
    /\ endpoint = Unset
    /\ embed_dimensions = 0
    /\ project_endpoint = Unset
    /\ azure_credential = 0
    /\ embed_client = NoClient
    /\ search_index_manager = NoManager
    /\ index_empty = "unknown"
    /\ credentials = <<>>
    /\ calls = <<>>
    /\ inflight = {}
    /\ out = <<>>
    /\ pending = "none"
    /\ raised = "none"

Init == InitWith(SampleProjectEndpoints, SearchEndpoints, DimensionValues, TenantIds)

\* main() ends by an exception leaving it
Raise(exception) ==
    /\ pc' = "raised"
    /\ raised' = exception

(***************************************************************************)
(* Lines 23-30: configuration from the environment                         *)
(***************************************************************************)
ReadConfiguration ==
    /\ pc = "start"
    /\ LET parsed == PyInt(EnvGet(env.dims, DefaultDimensions))
       IN  IF parsed.ok
           THEN /\ endpoint' = env.search
                /\ embed_dimensions' = parsed.val
                /\ project_endpoint' = env.project
                /\ pc' = "check_endpoint"
                /\ UNCHANGED raised
           ELSE /\ Raise("ValueError")
                /\ endpoint' = env.search
                /\ UNCHANGED <<embed_dimensions, project_endpoint>>
    /\ UNCHANGED <<env, handles, remote, out, pending>>

(***************************************************************************)
(* Lines 32-38: the two presence guards                                    *)
(***************************************************************************)
\* CheckSearchEndpoint with the return of line 34 missing
CheckSearchEndpoint_NoReturn ==
    /\ pc = "check_endpoint"
    /\ IF ~Truthy(endpoint)
       THEN out' = Append(out, "Error: AZURE_AI_SEARCH_ENDPOINT environment variable is not set")
       ELSE UNCHANGED out
    /\ pc' = "check_project"
    /\ UNCHANGED <<env, locals, handles, remote, pending, raised>>

CheckSearchEndpoint ==
    /\ pc = "check_endpoint"
    /\ IF ~Truthy(endpoint)
       THEN /\ out' = Append(out, "Error: AZURE_AI_SEARCH_ENDPOINT environment variable is not set")
            /\ pc' = "returned"
       ELSE /\ pc' = "check_project"
            /\ UNCHANGED out
    /\ UNCHANGED <<env, locals, handles, remote, pending, raised>>

\* lines 36-43
CheckProjectEndpoint ==
    /\ pc = "check_project"
    /\ IF ~Truthy(project_endpoint)
       THEN /\ out' = Append(out, "Error: AZURE_AI_PROJECT_ENDPOINT environment variable is not set")
            /\ pc' = "returned"
       ELSE /\ out' = out \o <<"Azure Search Endpoint", "Index Name",
                               "Embedding Model", "Dimensions">>
            /\ pc' = "credentials"
    /\ UNCHANGED <<env, locals, handles, remote, pending, raised>>

(***************************************************************************)
(* Lines 45-50: the credential                                             *)
(***************************************************************************)
\* CredentialFor with the tenant branch lost
CredentialFor_AlwaysDefault(tenant_id) == [variant |-> "default", tenant_id |-> <<>>]

\* the AzureCliCredential call the branch at line 47 selects
CredentialFor(tenant_id) ==
    IF Truthy(tenant_id)
    THEN [variant |-> "tenant", tenant_id |-> tenant_id.val]
    ELSE [variant |-> "default", tenant_id |-> <<>>]

SetUpCredentials ==
    /\ pc = "credentials"
    /\ credentials' = Append(credentials, CredentialFor(env.tenant))
    /\ \E outcome \in Outcomes :
          IF outcome = "returns"
          THEN /\ azure_credential' = Len(credentials) + 1
               /\ pc' = "embed_client"
               /\ UNCHANGED raised
          ELSE /\ Raise("AzureCliCredential")
               /\ UNCHANGED azure_credential
    /\ UNCHANGED <<env, locals, embed_client, search_index_manager, remote, out, pending>>

(***************************************************************************)
(* Lines 52-58: the embeddings client                                      *)
(***************************************************************************)
CreateEmbeddingsClient ==
    /\ pc = "embed_client"
    /\ IF UrlparseRaises(project_endpoint.val)
       THEN /\ Raise("ValueError")
            /\ UNCHANGED embed_client
       ELSE \E outcome \in Outcomes :
               IF outcome = "returns"
               THEN /\ embed_client' =
                          [constructed |-> TRUE,
                           endpoint |-> InferenceEndpoint(project_endpoint.val),
                           credential |-> azure_credential,
                           credential_scopes |-> <<"https://ai.azure.com/.default">>]
                    /\ pc' = "manager"
                    /\ UNCHANGED raised
               ELSE /\ Raise("EmbeddingsClient")
                    /\ UNCHANGED embed_client
    /\ UNCHANGED <<env, locals, azure_credential, credentials, search_index_manager,
                   remote, out, pending>>

(***************************************************************************)
(* Lines 60-68: the index manager                                          *)
(***************************************************************************)
CreateSearchIndexManager ==
    /\ pc = "manager"
    /\ \E outcome \in Outcomes :
          IF outcome = "returns"
          THEN /\ search_index_manager' =
                     [constructed |-> TRUE,
                      endpoint |-> endpoint.val,
                      credential |-> azure_credential,
                      dimensions |-> embed_dimensions,
                      embeddings_client |-> embed_client]
               /\ pc' = "ensure"
               /\ UNCHANGED raised
          ELSE /\ Raise("SearchIndexManager")
               /\ UNCHANGED search_index_manager
    /\ UNCHANGED <<env, locals, azure_credential, credentials, embed_client,
                   remote, out, pending>>

(***************************************************************************)
(* Lines 70-85: the try block.  Each await issues the call, and main()     *)
(* goes on only when the call has completed.                               *)
(***************************************************************************)
\* an exception inside the try block: control goes to the finally block
RaiseInTry(exception) ==
    /\ pending' = exception
    /\ pc' = "close_manager"

\* CallEnsureIndexCreated with the call of line 73 not awaited
CallEnsureIndexCreated_NotAwaited ==
    /\ pc = "ensure"
    /\ out' = out \o <<"Creating index if it doesn't exist...", "Index ready.">>
    /\ calls' = Append(calls, Call("ensure_index_created", embed_dimensions, <<>>))
    /\ inflight' = inflight \cup {"ensure_index_created"}
    /\ pc' = "is_empty"
    /\ UNCHANGED <<env, locals, handles, index_empty, pending, raised>>

\* CallEnsureIndexCreated passing the default dimensionality, not the configured one
CallEnsureIndexCreated_DefaultDimensions ==
    /\ pc = "ensure"
    /\ out' = Append(out, "Creating index if it doesn't exist...")
    /\ calls' = Append(calls, Call("ensure_index_created", PyInt(DefaultDimensions).val, <<>>))
    /\ inflight' = inflight \cup {"ensure_index_created"}
    /\ pc' = "ensure_wait"
    /\ UNCHANGED <<env, locals, handles, index_empty, pending, raised>>

\* line 72 and the call of line 73
CallEnsureIndexCreated ==
    /\ pc = "ensure"
    /\ out' = Append(out, "Creating index if it doesn't exist...")
    /\ calls' = Append(calls, Call("ensure_index_created", embed_dimensions, <<>>))
    /\ inflight' = inflight \cup {"ensure_index_created"}
    /\ pc' = "ensure_wait"
    /\ UNCHANGED <<env, locals, handles, index_empty, pending, raised>>

\* the await of line 73 resumes; line 74
AwaitEnsureIndexCreated ==
    /\ pc = "ensure_wait"
    /\ inflight' = inflight \ {"ensure_index_created"}
    /\ \E outcome \in Outcomes :
          IF outcome = "returns"
          THEN /\ out' = Append(out, "Index ready.")
               /\ pc' = "is_empty"
               /\ UNCHANGED pending
          ELSE /\ RaiseInTry("ensure_index_created")
               /\ UNCHANGED out
    /\ UNCHANGED <<env, locals, handles, index_empty, calls, raised>>

\* the call of line 77
CallIsIndexEmpty ==
    /\ pc = "is_empty"
    /\ calls' = Append(calls, Call("is_index_empty", 0, <<>>))
    /\ inflight' = inflight \cup {"is_index_empty"}
    /\ pc' = "is_empty_wait"
    /\ UNCHANGED <<env, locals, handles, index_empty, out, pending, raised>>

\* BranchOnEmpty with the condition of line 77 negated
BranchOnEmpty_Negated(answer) == IF answer = "true" THEN "skip" ELSE "upload"

\* where the branch of line 77 goes on an answer of is_index_empty()
BranchOnEmpty(answer) == IF answer = "true" THEN "upload" ELSE "skip"

\* the await of line 77 resumes
AwaitIsIndexEmpty ==
    /\ pc = "is_empty_wait"
    /\ inflight' = inflight \ {"is_index_empty"}
    /\ \E outcome \in {"true", "false", "raises"} :
          IF outcome = "raises"
          THEN /\ RaiseInTry("is_index_empty")
               /\ UNCHANGED index_empty
          ELSE /\ index_empty' = outcome
               /\ pc' = BranchOnEmpty(outcome)
               /\ UNCHANGED pending
    /\ UNCHANGED <<env, locals, handles, calls, out, raised>>

\* lines 79-80 and the call of line 81
CallUploadDocuments ==
    /\ pc = "upload"
    /\ out' = Append(out, "Uploading embeddings...")
    /\ calls' = Append(calls, Call("upload_documents", 0, EmbeddingsPath))
    /\ inflight' = inflight \cup {"upload_documents"}
    /\ pc' = "upload_wait"
    /\ UNCHANGED <<env, locals, handles, index_empty, pending, raised>>

\* the await of line 81 resumes; line 82
AwaitUploadDocuments ==
    /\ pc = "upload_wait"
    /\ inflight' = inflight \ {"upload_documents"}
    /\ \E outcome \in Outcomes :
          IF outcome = "returns"
          THEN /\ out' = Append(out, "Embeddings uploaded successfully!")
               /\ pc' = "close_manager"
               /\ UNCHANGED pending
          ELSE /\ RaiseInTry("upload_documents")
               /\ UNCHANGED out
    /\ UNCHANGED <<env, locals, handles, index_empty, calls, raised>>

\* lines 83-85
SkipUpload ==
    /\ pc = "skip"
    /\ out' = out \o <<"Index already contains documents. Skipping upload.",
                       "To re-upload, delete the index first in Azure Portal.">>
    /\ pc' = "close_manager"
    /\ UNCHANGED <<env, locals, handles, remote, pending, raised>>

(***************************************************************************)
(* Lines 86-88: the finally block                                          *)
(***************************************************************************)
\* the call of line 87
CallManagerClose ==
    /\ pc = "close_manager"
    /\ calls' = Append(calls, Call("search_index_manager.close", 0, <<>>))
    /\ inflight' = inflight \cup {"search_index_manager.close"}
    /\ pc' = "close_manager_wait"
    /\ UNCHANGED <<env, locals, handles, index_empty, out, pending, raised>>

\* the await of line 87 resumes: an exception here leaves the finally
\* block, and main(), at once
AwaitManagerClose ==
    /\ pc = "close_manager_wait"
    /\ inflight' = inflight \ {"search_index_manager.close"}
    /\ \E outcome \in Outcomes :
          IF outcome = "returns"
          THEN /\ pc' = "close_client"
               /\ UNCHANGED raised
          ELSE Raise("search_index_manager.close")
    /\ UNCHANGED <<env, locals, handles, index_empty, calls, out, pending>>

\* the call of line 88
CallClientClose ==
    /\ pc = "close_client"
    /\ calls' = Append(calls, Call("embed_client.close", 0, <<>>))
    /\ inflight' = inflight \cup {"embed_client.close"}
    /\ pc' = "close_client_wait"
    /\ UNCHANGED <<env, locals, handles, index_empty, out, pending, raised>>

\* the await of line 88 resumes; the finally block ends: the exception of
\* the try block, if there is one, is re-raised
AwaitClientClose ==
    /\ pc = "close_client_wait"
    /\ inflight' = inflight \ {"embed_client.close"}
    /\ \E outcome \in Outcomes :
          IF outcome = "raises"
          THEN Raise("embed_client.close")
          ELSE IF pending # "none"
               THEN Raise(pending)
               ELSE /\ pc' = "returned"
                    /\ UNCHANGED raised
    /\ UNCHANGED <<env, locals, handles, index_empty, calls, out, pending>>

(***************************************************************************)
(* Lines 91-92: asyncio.run(main()) as the program's entry point           *)
(***************************************************************************)
Terminated == pc \in {"returned", "raised"}

\* the process's exit status once main() has terminated
ExitCode == IF pc = "raised" THEN 1 ELSE 0

Next ==
    \/ ReadConfiguration
    \/ CheckSearchEndpoint
    \/ CheckProjectEndpoint
    \/ SetUpCredentials
    \/ CreateEmbeddingsClient
    \/ CreateSearchIndexManager
    \/ CallEnsureIndexCreated
    \/ AwaitEnsureIndexCreated
    \/ CallIsIndexEmpty
    \/ AwaitIsIndexEmpty
    \/ CallUploadDocuments
    \/ AwaitUploadDocuments
    \/ SkipUpload
    \/ CallManagerClose
    \/ AwaitManagerClose
    \/ CallClientClose
    \/ AwaitClientClose

Spec == Init /\ [][Next]_vars

\* The derivation of the inference endpoint over every bounded project
\* endpoint: the run up to the construction of the embeddings client, with
\* the other variables at values that pass the guards.
InitUrl == InitWith(AllProjectEndpoints, {SetTo(<<"s">>)}, {Unset}, {Unset})

NextUrl ==
    \/ ReadConfiguration
    \/ CheckSearchEndpoint
    \/ CheckProjectEndpoint
    \/ SetUpCredentials
    \/ CreateEmbeddingsClient

SpecUrl == InitUrl /\ [][NextUrl]_vars

(***************************************************************************)
(* Vocabulary of the properties                                            *)
(***************************************************************************)
Absent(v) == ~v.set

CallCount(op) == Cardinality({i \in DOMAIN calls : calls[i].op = op})
Called(op) == CallCount(op) > 0

BeforeGuards == pc \in {"start", "check_endpoint", "check_project"}

\* line 43 was reached: both presence guards were passed
PassedGuards == Len(out) >= 4 /\ out[4] = "Dimensions"

NothingConstructed ==
    /\ credentials = <<>>
    /\ azure_credential = 0
    /\ ~embed_client.constructed
    /\ ~search_index_manager.constructed

\* the try statement of line 70 was entered
ReachedTry == search_index_manager.constructed

\* s is an integer literal: blanks, an optional sign, one or more digits, blanks
IsIntegerText(s) ==
    \E i, j \in 1..Len(s) :
        /\ i <= j
        /\ \A k \in 1..Len(s) : (k < i \/ k > j) => s[k] = " "
        /\ \A k \in (i + 1)..j : IsDigit(s[k])
        /\ IsDigit(s[i]) \/ (s[i] \in {"-", "+"} /\ i < j)

RECURSIVE PowerOfTen(_)
PowerOfTen(n) == IF n = 0 THEN 1 ELSE 10 * PowerOfTen(n - 1)

RECURSIVE SumOver(_, _)
SumOver(f, S) ==
    IF S = {} THEN 0
    ELSE LET x == CHOOSE y \in S : TRUE IN f[x] + SumOver(f, S \ {x})

\* the integer an integer literal denotes: its digits weighted by position
IntegerTextValue(s) ==
    LET places == {k \in 1..Len(s) : IsDigit(s[k])}
        last == CHOOSE k \in places : \A m \in places : m <= k
        weight == [k \in places |-> DigitValue(s[k]) * PowerOfTen(last - k)]
        magnitude == SumOver(weight, places)
    IN  IF \E k \in 1..Len(s) : s[k] = "-" THEN 0 - magnitude ELSE magnitude

DimensionsConvertible == Absent(env.dims) \/ IsIntegerText(env.dims.val)

SearchDiagnostic == "Error: AZURE_AI_SEARCH_ENDPOINT environment variable is not set"
ProjectDiagnostic == "Error: AZURE_AI_PROJECT_ENDPOINT environment variable is not set"

\* what a run with a missing endpoint is to do: stay before line 40, build
\* nothing, call nothing, and end by returning after the one diagnostic
MissingConfigExit ==
    /\ BeforeGuards \/ pc = "returned"
    /\ NothingConstructed
    /\ calls = <<>> /\ inflight = {}
    /\ pc = "returned" =>
          /\ ExitCode = 0
          /\ raised = "none"
          /\ out = << IF ~Truthy(env.search) THEN SearchDiagnostic ELSE ProjectDiagnostic >>

(***************************************************************************)
(* C1                                                                      *)
(***************************************************************************)
\* C1, as claimed: in every run where AZURE_AI_SEARCH_ENDPOINT or
\* AZURE_AI_PROJECT_ENDPOINT is absent, whatever the other variables hold,
\* the run prints the diagnostic and returns (exit code 0, no exception)
\* having constructed nothing and issued no remote call.
C1_MissingEndpointAlwaysExitsCleanly ==
    (Absent(env.search) \/ Absent(env.project)) => MissingConfigExit

\* C1, amended: the same, for the runs in which AZURE_AI_EMBED_DIMENSIONS is
\* unset or an integer literal; int() of line 29 runs before the guards, and
\* on any other value the run ends with its ValueError instead, still
\* having constructed nothing and issued no remote call.
C1_MissingEndpointExitsCleanly ==
    (Absent(env.search) \/ Absent(env.project)) =>
        /\ NothingConstructed
        /\ calls = <<>> /\ inflight = {}
        /\ IF DimensionsConvertible
           THEN MissingConfigExit
           ELSE pc \in {"start", "raised"} /\ (pc = "raised" => raised = "ValueError")

C1_Witness ==
    /\ env.search = SetTo(<<"s">>)
    /\ Absent(env.project)
    /\ env.dims = SetTo(<<"1", "2">>)
    /\ env.tenant = SetTo(<<"t">>)
    /\ pc = "returned"
    /\ out = <<ProjectDiagnostic>>

(***************************************************************************)
(* C2                                                                      *)
(***************************************************************************)
\* C2: in every run that reaches the try block, search_index_manager.close()
\* and embed_client.close() are each invoked exactly once: never twice, and
\* once by the time the run has terminated.
C2_EachCloseExactlyOnce ==
    /\ CallCount("search_index_manager.close") <= 1
    /\ CallCount("embed_client.close") <= 1
    /\ (ReachedTry /\ Terminated) =>
          /\ CallCount("search_index_manager.close") = 1
          /\ CallCount("embed_client.close") = 1

(***************************************************************************)
(* C3                                                                      *)
(***************************************************************************)
\* C3: in every terminal state of a run, every handle that was constructed
\* (embeddings client, index manager) has had its close() called.
C3_ConstructedHandlesClosed ==
    Terminated =>
        /\ embed_client.constructed => Called("embed_client.close")
        /\ search_index_manager.constructed => Called("search_index_manager.close")

(***************************************************************************)
(* C4                                                                      *)
(***************************************************************************)
\* C4: upload_documents is invoked only after is_index_empty returned true,
\* at most once, and with the path data/embeddings.csv under the script's
\* directory; once the finally block is reached it has been invoked exactly
\* once if is_index_empty returned true and not at all if it returned false,
\* raised or was never reached.
C4_UploadIffIndexEmpty ==
    /\ CallCount("upload_documents") <= 1
    /\ Called("upload_documents") => index_empty = "true"
    /\ \A i \in DOMAIN calls :
          calls[i].op = "upload_documents" =>
              calls[i].path = <<"dirname(__file__)", "data", "embeddings.csv">>
    /\ (Terminated \/ pc \in {"close_manager", "close_manager_wait",
                              "close_client", "close_client_wait"}) =>
          CallCount("upload_documents") = (IF index_empty = "true" THEN 1 ELSE 0)

C4_Witness ==
    /\ pc = "returned"
    /\ index_empty = "true"
    /\ CallCount("is_index_empty") = 1
    /\ CallCount("upload_documents") = 1

(***************************************************************************)
(* C5                                                                      *)
(***************************************************************************)
\* the steps (a)-(c) that follow a step
LaterSteps(op) ==
    CASE op = "ensure_index_created" -> {"is_index_empty", "upload_documents"}
      [] op = "is_index_empty" -> {"upload_documents"}
      [] OTHER -> {}

\* C5: when ensure_index_created, is_index_empty or upload_documents raises,
\* the remaining steps are skipped, both close calls run, and main()
\* terminates with that same failure (non-zero exit), never with success.
C5_FailurePropagatesAfterCleanup ==
    pending # "none" =>
        /\ \A op \in LaterSteps(pending) : ~Called(op)
        /\ pc # "returned"
        /\ Terminated =>
              /\ raised = pending
              /\ ExitCode # 0
              /\ Called("search_index_manager.close")
              /\ Called("embed_client.close")

(***************************************************************************)
(* C6                                                                      *)
(***************************************************************************)
\* the fixed order of the awaited calls
CallRank(op) ==
    CASE op = "ensure_index_created" -> 1
      [] op = "is_index_empty" -> 2
      [] op = "upload_documents" -> 3
      [] op = "search_index_manager.close" -> 4
      [] op = "embed_client.close" -> 5

\* C6: the remote calls are strictly sequential and in a fixed order: at
\* most one call is in flight, it is the one issued last (every earlier one
\* has completed or failed), the calls are issued in the order
\* ensure_index_created, is_index_empty, upload_documents, manager close,
\* client close, and none is issued before the one it depends on.
C6_CallsSequentialInOrder ==
    /\ Cardinality(inflight) <= 1
    /\ \A op \in inflight : calls # <<>> /\ calls[Len(calls)].op = op
    /\ \A i, j \in DOMAIN calls : i < j => CallRank(calls[i].op) < CallRank(calls[j].op)
    /\ calls # <<>> => calls[1].op = "ensure_index_created"
    /\ Called("upload_documents") => Called("is_index_empty")
    /\ Called("embed_client.close") => Called("search_index_manager.close")

C6_Witness ==
    /\ pc = "returned"
    /\ inflight = {}
    /\ [i \in DOMAIN calls |-> calls[i].op] =
          <<"ensure_index_created", "is_index_empty", "upload_documents",
            "search_index_manager.close", "embed_client.close">>

(***************************************************************************)
(* C7                                                                      *)
(***************************************************************************)
\* the credential statement of lines 46-50 has been executed
CredentialStepDone == PassedGuards /\ pc # "credentials"

\* one credential, of the given variant, shared by both clients
OneCredential(variant, tenant) ==
    /\ credentials = << [variant |-> variant, tenant_id |-> tenant] >>
    /\ embed_client.constructed =>
          azure_credential = 1 /\ embed_client.credential = 1
    /\ search_index_manager.constructed =>
          /\ search_index_manager.credential = 1
          /\ search_index_manager.embeddings_client.credential = 1

\* C7, as claimed: past the guards exactly one credential is constructed,
\* tenant-scoped whenever AZURE_TENANT_ID is set, to any value, and default
\* when it is unset, and it is the one both clients receive.
C7_TenantVariantWheneverSet ==
    CredentialStepDone =>
        IF env.tenant.set THEN OneCredential("tenant", env.tenant.val)
        ELSE OneCredential("default", <<>>)

\* C7, amended: the same, with the tenant-scoped variant when
\* AZURE_TENANT_ID is set to a non-empty value and the default variant when
\* it is unset or set to the empty string.
C7_TenantVariantWhenNonEmpty ==
    CredentialStepDone =>
        IF env.tenant.set /\ env.tenant.val # <<>>
        THEN OneCredential("tenant", env.tenant.val)
        ELSE OneCredential("default", <<>>)

C7_Witness ==
    /\ env.tenant = SetTo(<<>>)
    /\ search_index_manager.constructed
    /\ credentials = << [variant |-> "default", tenant_id |-> <<>>] >>
    /\ embed_client.credential = 1
    /\ search_index_manager.credential = 1

(***************************************************************************)
(* C8                                                                      *)
(***************************************************************************)
UrlLetters == {"h"}

\* url begins with a scheme: letters, then a colon
SchemePrefixLength(url, k) ==
    /\ k >= 2
    /\ url[k] = ":"
    /\ \A m \in 1..(k - 1) : url[m] \in UrlLetters

\* a is the authority of url: what stands between the "//" that follows the
\* optional scheme and the next "/", "?" or "#"; empty when there is no "//"
IsAuthorityOf(a, url) ==
    \E k \in 0..Len(url) :
        /\ IF k = 0 THEN ~\E n \in 1..Len(url) : SchemePrefixLength(url, n)
           ELSE SchemePrefixLength(url, k)
        /\ LET rest == SubSeq(url, k + 1, Len(url))
           IN  IF Len(rest) >= 2 /\ rest[1] = "/" /\ rest[2] = "/"
               THEN /\ Len(a) + 2 <= Len(rest)
                    /\ a = SubSeq(rest, 3, Len(a) + 2)
                    /\ \A m \in 1..Len(a) : a[m] \notin {"/", "?", "#"}
                    /\ Len(rest) = Len(a) + 2 \/ rest[Len(a) + 3] \in {"/", "?", "#"}
               ELSE a = <<>>

Pieces(url) == {SubSeq(url, i, j) : i \in 1..(Len(url) + 1), j \in 0..Len(url)}

\* C8, as claimed: the inference endpoint given to the embeddings client is
\* "https://" + authority + "/models", and the authority is non-empty.
C8_EndpointHasNonEmptyAuthority ==
    embed_client.constructed =>
        \E a \in Pieces(project_endpoint.val) :
            /\ IsAuthorityOf(a, project_endpoint.val)
            /\ a # <<>>
            /\ embed_client.endpoint = <<"https://">> \o a \o <<"/models">>

\* C8, amended: whenever the embeddings client is constructed its endpoint
\* is "https://" + authority + "/models", the authority being what follows
\* the "//" after the optional scheme up to the next "/", "?" or "#"; a
\* value without that "//" has an empty authority and gives https:///models.
C8_EndpointFromAuthority ==
    embed_client.constructed =>
        \E a \in Pieces(project_endpoint.val) :
            /\ IsAuthorityOf(a, project_endpoint.val)
            /\ embed_client.endpoint = <<"https://">> \o a \o <<"/models">>

C8_Witness ==
    /\ project_endpoint = SetTo(<<"h", ":", "/", "/", "h", "/">>)
    /\ embed_client.constructed
    /\ embed_client.endpoint = <<"https://", "h", "/models">>

(***************************************************************************)
(* C9                                                                      *)
(***************************************************************************)
ExpectedDimensions ==
    IF Absent(env.dims) THEN 100 ELSE IntegerTextValue(env.dims.val)

\* C9: the dimensionality is 100 when AZURE_AI_EMBED_DIMENSIONS is unset and
\* its integer value otherwise, and that value goes to the index-manager
\* constructor and to ensure_index_created; a value that is no integer makes
\* the run end with the ValueError, nothing constructed and nothing called.
C9_DimensionsParsedAndPassed ==
    IF DimensionsConvertible
    THEN /\ pc # "start" => embed_dimensions = ExpectedDimensions
         /\ search_index_manager.constructed =>
               search_index_manager.dimensions = ExpectedDimensions
         /\ \A i \in DOMAIN calls :
               calls[i].op = "ensure_index_created" => calls[i].dims = ExpectedDimensions
         /\ pc = "raised" => PassedGuards
    ELSE /\ pc \in {"start", "raised"}
         /\ pc = "raised" => raised = "ValueError" /\ ExitCode # 0
         /\ NothingConstructed
         /\ calls = <<>> /\ inflight = {}

C9_Witness ==
    /\ env.dims = SetTo(<<"1", "2">>)
    /\ search_index_manager.dimensions = 12
    /\ Called("ensure_index_created")
    /\ calls[1].dims = 12

(***************************************************************************)
(* C10                                                                     *)
(***************************************************************************)
ExitedOnMissingConfig == pc = "returned" /\ ~PassedGuards

CompletedWithUpload ==
    pc = "returned" /\ PassedGuards /\ index_empty = "true" /\ Called("upload_documents")

CompletedSkipped ==
    pc = "returned" /\ PassedGuards /\ index_empty = "false" /\ ~Called("upload_documents")

\* a failed run whose handles, as far as they were constructed, were closed
FailedAfterCleanup ==
    /\ pc = "raised"
    /\ embed_client.constructed => Called("embed_client.close")
    /\ search_index_manager.constructed => Called("search_index_manager.close")

\* C10: every run ends in exactly one of the four terminal states; a failed
\* run has executed the cleanup (read here in its weakest form: of the
\* handles that exist), "completed with upload" follows an answer of true
\* and "completed skipped" an answer of false.
C10_FourTerminalStates ==
    Terminated =>
        Cardinality({k \in 1..4 :
            \/ k = 1 /\ ExitedOnMissingConfig
            \/ k = 2 /\ CompletedWithUpload
            \/ k = 3 /\ CompletedSkipped
            \/ k = 4 /\ FailedAfterCleanup}) = 1

====
